---- MODULE Spec2Model ----
(***************************************************************************)
(* Inverted index builder and query processor.                             *)
(*                                                                         *)
(*   src/indexer.py                     index_worker, Indexer              *)
(*   src/indexer/in_memory_indexer.py   InMemoryIndexer                    *)
(*   src/indexer/partial_index_writer.py PartialIndexWriter                *)
(*   src/indexer/index_merger.py        IndexMerger                        *)
(*   src/processor.py                   Processor                          *)
(*                                                                         *)
(* Tokens and docids are strings in the program; the program only ever     *)
(* compares them (sorted(), heapq, ==), so they are modelled as small      *)
(* naturals whose numeric order stands for the string order.               *)
(*                                                                         *)
(* Three specifications share the module:                                  *)
(*   Spec       the indexing run (streamer, workers, orchestrator)         *)
(*   SpecMerge  IndexMerger.merge over a directory of partial files        *)
(*   SpecQuery  Processor's conjunctive matching                           *)
(***************************************************************************)
EXTENDS Integers, Sequences, FiniteSets, TLC

\* ------------------------------------------------------------------ state
VARIABLES
  files,          \* the index directory: file name -> its records
  file_pointers,  \* IndexMerger.file_pointers: the names opened, in order
  fpos,           \* per open file, the number of lines read so far
  heap,           \* IndexMerger.heap
  final_index,    \* final_inverted_index.jsonl, a sequence of records
  lexicon,        \* lexicon.jsonl, a sequence of records
  mpc,            \* where merge() is: "idle", "loop", "done", "raised"
  merge_calls     \* how many times merge() has been called


VARIABLES
  corpus,           \* the corpus file: a sequence of lines (documents)
  max_entries,      \* InMemoryIndexer.max_entries, the same for every worker
  opc,              \* where Indexer.run is
  linepos,          \* _stream_documents: corpus lines read so far
  batch,            \* _stream_documents: the batch being filled
  total_documents,  \* _stream_documents: its count of documents
  sentinels,        \* _stream_documents: None items put so far
  queue,            \* input_queue
  stop_event,       \* stop_event.is_set()
  wpc,              \* per worker: "unstarted", "loop", "batch", "drain", "done", "dead"
  wbatch,           \* per worker: the documents of its batch still to index
  windex,           \* per worker: InMemoryIndexer.index
  entry_count,      \* per worker: InMemoryIndexer.entry_count
  counter,          \* per worker: PartialIndexWriter.counter
  wtokens,          \* per worker: total_tokens
  fragments,        \* document_index_worker_<id>.jsonl, per worker id
  stats_files,      \* worker_<id>_stats.json: worker id -> total_tokens
  handled,          \* history: the documents each worker passed to index_document
  document_index,   \* document_index.jsonl
  statistics,       \* indexing_statistics.json, or None
  memory_limit_mb,  \* Indexer.memory_limit_mb, from the command line
  memory_usage,     \* _get_memory_usage() at start-up, in MB
  memory_budget_mb, \* Indexer.memory_budget_mb, or None before __init__
  malformed_lines   \* the numbers of corpus lines read after which a line follows
                    \* that is no JSON object with id and text


VARIABLES
  inverted_index,     \* Processor.inverted_index: token -> posting list
  query_tokens_list,  \* Processor.query_tokens_list: one token list per query
  query_i,            \* process_queries: the queries processed so far
  docids,             \* process_queries: the candidate set of each query processed
  index_lexicon,      \* Processor.lexicon: token -> its lexicon.jsonl record
  ranker,             \* Processor.ranker: "bm25" or "tfidf"
  results,            \* process_queries: the result list displayed for each query
  qpc,                \* where process_queries is: "idle", "loop", "raised"
  total_docs,         \* Scorer.total_documents: "Number of Documents" of the statistics
  avg_tokens_per_doc, \* Scorer.average_document_token_count, of the statistics
  scorer_document_index  \* Scorer.document_index: docid -> token_count

mvars == <<files, file_pointers, fpos, heap, final_index, lexicon, mpc, merge_calls>>

pvars == <<corpus, malformed_lines, max_entries, opc, linepos, batch, total_documents, sentinels,
           queue, stop_event, wpc, wbatch, windex, entry_count, counter, wtokens,
           fragments, stats_files, handled, document_index, statistics,
           memory_limit_mb, memory_usage, memory_budget_mb>>

qvars == <<inverted_index, query_tokens_list, query_i, docids, index_lexicon, ranker,
           results, qpc, total_docs, avg_tokens_per_doc, scorer_document_index>>

vars == <<mvars, pvars, qvars>>

\* ------------------------------------------------------------------ bounds

\* Largest number of partial files in the merger's directory (SpecMerge).
MaxFiles == 2

Tokens == {1, 2}
DocIds == {1, 2}
TfValues == {1, 2}

\* ----------------------------------------------------------------- helpers

None == [none |-> TRUE]

RECURSIVE SumSeq(_)
SumSeq(s) == IF s = <<>> THEN 0 ELSE Head(s) + SumSeq(Tail(s))

Range(s) == {s[i] : i \in 1..Len(s)}

\* The elements of a finite set of naturals in ascending order: sorted().
RECURSIVE sorted(_)
sorted(S) ==
  IF S = {} THEN <<>>
  ELSE LET m == CHOOSE x \in S : \A y \in S : x <= y
       IN <<m>> \o sorted(S \ {m})

\* A posting is <<docid, tf>>; a posting list is a sequence of postings.
Postings == DocIds \X TfValues

\* ------------------------------------------------------------ file system
\* A file name of the index directory.  The two writers of the repository
\* and the merger's filter differ in the prefix only, so a name is its
\* prefix, the worker id, the flush counter and the extension.
FileName(prefix, worker_id, n) ==
  [prefix |-> prefix, worker |-> worker_id, counter |-> n, ext |-> ".jsonl"]

\* PartialIndexWriter.write_to_disk: the name of the file of one flush.
index_file_path(worker_id, n) == FileName("partial_index_", worker_id, n)

\* The records of one partial file: one {token, postings} line per key of
\* the in-memory index, in sorted(index.keys()) order.  index maps every
\* token to its posting list; a token that is no key of the defaultdict has
\* the empty list.
IndexKeys(index) == {t \in DOMAIN index : index[t] # <<>>}

\* The keys the other way round: what sorted(index.keys()) is not.
RECURSIVE sorted_descending(_)
sorted_descending(S) ==
  IF S = {} THEN <<>>
  ELSE LET m == CHOOSE x \in S : \A y \in S : x >= y
       IN <<m>> \o sorted_descending(S \ {m})

write_to_disk_descending(index) ==
  LET keys == sorted_descending(IndexKeys(index))
  IN [i \in 1..Len(keys) |-> [token |-> keys[i], postings |-> index[keys[i]]]]

write_to_disk(index) ==
  LET keys == sorted(IndexKeys(index))
  IN [i \in 1..Len(keys) |-> [token |-> keys[i], postings |-> index[keys[i]]]]

\* ------------------------------------------------------------------ heapq
\* A heap entry is the tuple (term, postings, fp).  Python compares tuples
\* element by element: the terms, then the postings lists, then the file
\* objects, which do not support "<" and raise TypeError.

PostingLess(p, q) == IF p[1] # q[1] THEN p[1] < q[1] ELSE p[2] < q[2]

ListLess(p, q) ==
  LET n == IF Len(p) < Len(q) THEN Len(p) ELSE Len(q)
      diff == {i \in 1..n : p[i] # q[i]}
  IN IF diff = {} THEN Len(p) < Len(q)
     ELSE LET d == CHOOSE i \in diff : \A j \in diff : i <= j
          IN PostingLess(p[d], q[d])

\* a < b on heap entries: "lt", "ge", or "TypeError".
EntryLess(a, b) ==
  IF a.term # b.term THEN (IF a.term < b.term THEN "lt" ELSE "ge")
  ELSE IF a.postings # b.postings
       THEN (IF ListLess(a.postings, b.postings) THEN "lt" ELSE "ge")
       ELSE "TypeError"

\* Positions are 0-based as in heapq; heap[pos] is h[pos + 1].  Every heap
\* operation gives [h, err]: err is TRUE when a comparison raised TypeError.
Ok(h) == [h |-> h, err |-> FALSE]
Raised(h) == [h |-> h, err |-> TRUE]

Put(h, pos, item) == [h EXCEPT ![pos + 1] = item]

RECURSIVE siftdown_loop(_, _, _, _)
siftdown_step(h, newitem, startpos, pos, parentpos, c) ==
  IF c = "TypeError" THEN Raised(h)
  ELSE IF c = "lt"
       THEN siftdown_loop(Put(h, pos, h[parentpos + 1]), newitem, startpos, parentpos)
       ELSE Ok(Put(h, pos, newitem))

siftdown_loop(h, newitem, startpos, pos) ==
  IF pos > startpos
  THEN siftdown_step(h, newitem, startpos, pos, (pos - 1) \div 2,
                     EntryLess(newitem, h[((pos - 1) \div 2) + 1]))
  ELSE Ok(Put(h, pos, newitem))

siftdown(h, startpos, pos) == siftdown_loop(h, h[pos + 1], startpos, pos)

\* The loop of _siftup: bubble the smaller child up until a leaf is hit, then
\* put newitem there and sift it down.
RECURSIVE siftup_loop(_, _, _, _)
siftup_step(h, newitem, startpos, pos, c) ==
  IF c = "TypeError" THEN Raised(h)
  ELSE IF c = "lt"
       THEN siftup_loop(Put(h, pos, h[2 * pos + 2]), newitem, startpos, 2 * pos + 1)
       ELSE siftup_loop(Put(h, pos, h[2 * pos + 3]), newitem, startpos, 2 * pos + 2)

siftup_loop(h, newitem, startpos, pos) ==
  IF 2 * pos + 1 < Len(h)
  THEN siftup_step(h, newitem, startpos, pos,
                   IF 2 * pos + 2 < Len(h)
                   THEN EntryLess(h[2 * pos + 2], h[2 * pos + 3])
                   ELSE "lt")
  ELSE siftdown(Put(h, pos, newitem), startpos, pos)

siftup(h, pos) == siftup_loop(h, h[pos + 1], pos, pos)

heappush(h, item) == siftdown(Append(h, item), 0, Len(h))

\* heappop: [h, err, item].
WithItem(r, item) == [h |-> r.h, err |-> r.err, item |-> item]

heappop(h) ==
  IF Len(h) > 1
  THEN WithItem(siftup(Put(SubSeq(h, 1, Len(h) - 1), 0, h[Len(h)]), 0), h[1])
  ELSE [h |-> <<>>, err |-> FALSE, item |-> h[Len(h)]]

RECURSIVE heapify_loop(_, _)
heapify_next(r, i) == IF r.err THEN r ELSE heapify_loop(r.h, i - 1)

heapify_loop(h, i) == IF i < 0 THEN Ok(h) ELSE heapify_next(siftup(h, i), i)

heapify(x) == heapify_loop(x, (Len(x) \div 2) - 1)

\* ------------------------------------------------------------ IndexMerger
\* How often merge() is called in SpecMerge.
MaxMergeCalls == 2

\* merge(), its listing filter: f.startswith('index_') and f.endswith('.jsonl').
IsPartialIndexFile(name) == name.prefix = "index_" /\ name.ext = ".jsonl"

\* os.listdir gives the names in an arbitrary order; the model lists them by
\* (worker, counter).  Init ranges over every assignment of contents to
\* names, so every order of contents is covered.
NameKey(name) == name.worker * 100 + name.counter

partial_index_files(fs) ==
  LET names == {n \in DOMAIN fs : IsPartialIndexFile(n)}
      keys == sorted({NameKey(n) : n \in names})
  IN [i \in 1..Len(keys) |-> CHOOSE n \in names : NameKey(n) = keys[i]]

\* read_next_term: the next (token, postings) of fp, or None at end of file.
read_last_term(fs, pos, fp) ==
  IF pos[fp] < Len(fs[fp]) THEN fs[fp][Len(fs[fp])] ELSE None

read_next_term(fs, pos, fp) ==
  IF pos[fp] < Len(fs[fp]) THEN fs[fp][pos[fp] + 1] ELSE None

Advance(fs, pos, fp) ==
  IF pos[fp] < Len(fs[fp]) THEN [pos EXCEPT ![fp] = @ + 1] ELSE pos

Entry(rec, fp) == [term |-> rec.token, postings |-> rec.postings, fp |-> fp]

\* Lines 24-30: read the first record of every file, build and heapify the heap.
current_terms(fs, fps) ==
  LET pos0 == [n \in Range(fps) |-> 0]
      live == SelectSeq(fps, LAMBDA fp : read_next_term(fs, pos0, fp) # None)
  IN [i \in 1..Len(live) |-> Entry(read_next_term(fs, pos0, live[i]), live[i])]

first_positions(fs, fps) ==
  [n \in Range(fps) |-> IF Len(fs[n]) > 0 THEN 1 ELSE 0]

\* Line 38, the inner loop's condition: self.heap and self.heap[0][0] == term.
SameTermNever(h, term) == FALSE

same_term_on_top(h, term) == h # <<>> /\ h[1].term = term

\* Lines 46-47.
doc_frequency_first_only(merged_postings) == 1

doc_frequency(merged_postings) == Len(merged_postings)

term_frequency_corpus(merged_postings) ==
  SumSeq([i \in 1..Len(merged_postings) |-> merged_postings[i][2]])

\* Lines 52-57.
lexicon_entry(term, merged_postings) ==
  [token |-> term,
   doc_frequency |-> doc_frequency(merged_postings),
   term_frequency_corpus |-> term_frequency_corpus(merged_postings)]

\* The state of merge() inside its loop.
MergeState(h, pos, out, lex, err) ==
  [heap |-> h, fpos |-> pos, out |-> out, lex |-> lex, err |-> err]

\* Read fp's next record and push it when there is one (lines 42-44, 60-62).
push_record(h, next_term, fp) ==
  IF next_term # None THEN heappush(h, Entry(next_term, fp)) ELSE Ok(h)

WithPos(r, pos) == [h |-> r.h, err |-> r.err, fpos |-> pos]

push_next(fs, h, pos, fp) ==
  WithPos(push_record(h, read_next_term(fs, pos, fp), fp), Advance(fs, pos, fp))

\* Lines 38-44: pop and combine every further entry of the same term.
Combined(h, pos, merged_postings, err) ==
  [h |-> h, fpos |-> pos, merged |-> merged_postings, err |-> err]

RECURSIVE combine(_, _, _, _, _)
combine_pushed(fs, n, term, more) ==
  IF n.err THEN Combined(n.h, n.fpos, more, TRUE)
  ELSE combine(fs, n.h, n.fpos, term, more)

combine_popped(fs, h, pos, term, merged_postings, p) ==
  IF p.err THEN Combined(h, pos, merged_postings, TRUE)
  ELSE combine_pushed(fs, push_next(fs, p.h, pos, p.item.fp), term,
                      merged_postings \o p.item.postings)

combine(fs, h, pos, term, merged_postings) ==
  IF same_term_on_top(h, term)
  THEN combine_popped(fs, h, pos, term, merged_postings, heappop(h))
  ELSE Combined(h, pos, merged_postings, FALSE)

\* Lines 46-62: write the records of term, then read on in the popped file.
emit_pushed(m, term, merged_postings, n) ==
  MergeState(n.h, n.fpos,
             Append(m.out, [token |-> term, postings |-> merged_postings]),
             Append(m.lex, lexicon_entry(term, merged_postings)),
             n.err)

merge_combined(fs, m, item, c) ==
  IF c.err THEN MergeState(c.h, c.fpos, m.out, m.lex, TRUE)
  ELSE emit_pushed(m, item.term, c.merged, push_next(fs, c.h, c.fpos, item.fp))

merge_popped(fs, m, p) ==
  IF p.err THEN MergeState(m.heap, m.fpos, m.out, m.lex, TRUE)
  ELSE merge_combined(fs, m, p.item,
                      combine(fs, p.h, m.fpos, p.item.term, p.item.postings))

\* Lines 35-62: one iteration of "while self.heap".
merge_iteration(fs, m) == merge_popped(fs, m, heappop(m.heap))

\* Lines 20-33: list, open, read the first records, heapify, open the outputs
\* for writing (which empties them).  heapify raises before the outputs are
\* opened, so they keep their contents then.
merge_heapified(r, pos, old_out, old_lex) ==
  IF r.err THEN MergeState(r.h, pos, old_out, old_lex, TRUE)
  ELSE MergeState(r.h, pos, <<>>, <<>>, FALSE)

merge_opened(fs, fps, old_out, old_lex) ==
  merge_heapified(heapify(current_terms(fs, fps)), first_positions(fs, fps),
                  old_out, old_lex)

merge_begin(fs, old_out, old_lex) ==
  merge_opened(fs, partial_index_files(fs), old_out, old_lex)

\* Lines 64-66: close and remove every file that was opened.
remove_files(fs, fps) == [n \in DOMAIN fs \ Range(fps) |-> fs[n]]

\* The whole loop, run to its end or to the exception.
RECURSIVE merge_loop(_, _)
merge_loop(fs, m) ==
  IF m.err \/ m.heap = <<>> THEN m ELSE merge_loop(fs, merge_iteration(fs, m))

\* merge() as the orchestrator calls it: one call, start to end.
merge(fs, old_out, old_lex) == merge_loop(fs, merge_begin(fs, old_out, old_lex))

\* --------------------------------------------------------- the indexing run

\* Documents of a corpus (MaxDocs) and the largest max_entries tried
\* (MaxEntries).
MaxDocs == 2
MaxEntries == 3

\* run(): Queue(maxsize=16) and batch_size=1000, scaled down so that a corpus
\* of MaxDocs documents spans several batches and can fill the queue.
QueueMaxSize == 1
BatchSize == 1

Workers == {0, 1}

\* number_of_workers
NumberOfWorkers == Cardinality(Workers)

\* A corpus line {"id": ..., "text": ...}.  The tokenizer is an external pure
\* function, so a document carries tokenize(text) instead of its text;
\* is_str is whether text is a string (Tokenizer.tokenize raises ValueError
\* when it is not).
\* Texts are the token sequences of up to two tokens.
Texts == UNION {[1..n -> Tokens] : n \in 0..2}

Docs == [id : DocIds, is_str : {TRUE}, tokens : Texts]
          \cup [id : {1}, is_str : {FALSE}, tokens : {<<>>}]

Corpora == UNION {[1..n -> Docs] : n \in 0..MaxDocs}

\* collections.Counter(tokens): the distinct tokens in order of first
\* occurrence, and the count of each.
RECURSIVE CounterKeys(_)
CounterKeys(tokens) ==
  IF tokens = <<>> THEN <<>>
  ELSE <<Head(tokens)>> \o CounterKeys(SelectSeq(Tail(tokens), LAMBDA t : t # Head(tokens)))

CounterValue(tokens, t) == Cardinality({i \in 1..Len(tokens) : tokens[i] = t})

\* InMemoryIndexer.__init__ / reset_index: an empty defaultdict(list).
EmptyIndex == [t \in Tokens |-> <<>>]

\* InMemoryIndexer.index_document: [index, entry_count, reached].
Indexed(index, count, reached) ==
  [index |-> index, entry_count |-> count, reached |-> reached]

RECURSIVE index_tokens(_, _, _, _, _, _)
index_appended_late(index, count, docid, keys, tokens, maxe) ==
  IF count > maxe THEN Indexed(index, 0, TRUE)
  ELSE index_tokens(index, count, docid, keys, tokens, maxe)

index_appended(index, count, docid, keys, tokens, maxe) ==
  IF count >= maxe THEN Indexed(index, 0, TRUE)
  ELSE index_tokens(index, count, docid, keys, tokens, maxe)

index_tokens(index, count, docid, keys, tokens, maxe) ==
  IF keys = <<>> THEN Indexed(index, count, FALSE)
  ELSE index_appended(
         [index EXCEPT ![Head(keys)] = Append(@, <<docid, CounterValue(tokens, Head(keys))>>)],
         count + 1, docid, Tail(keys), tokens, maxe)

index_document(index, count, docid, tokens, maxe) ==
  index_tokens(index, count, docid, CounterKeys(tokens), tokens, maxe)

\* index_worker, line 79-85: the document's metadata line.
document_metadata_anonymous(doc) == [id |-> 0, token_count |-> Len(doc.tokens)]

document_metadata(doc) == [id |-> doc.id, token_count |-> Len(doc.tokens)]

\* -- Indexer.run and _stream_documents

\* An item of input_queue: a batch of documents, or None.
Batch(docs) == [docs |-> docs]

\* No query processor is running.
NoQueries ==
  /\ inverted_index = <<>>
  /\ query_tokens_list = <<>>
  /\ query_i = 0
  /\ docids = <<>>
  /\ index_lexicon = <<>>
  /\ ranker = "bm25"
  /\ results = <<>>
  /\ qpc = "idle"
  /\ total_docs = 0
  /\ avg_tokens_per_doc = 0
  /\ scorer_document_index = <<>>

\* The memory limits given on the command line and the resident sizes of
\* the process at start-up that are tried, in MB.
MemoryLimits == {100, 200}
MemoryUsages == {30, 80, 90}

MemoryVars == <<memory_limit_mb, memory_usage, memory_budget_mb>>

\* int(x / 10): towards zero.
int_tenths(x) == IF x >= 0 THEN x \div 10 ELSE -((-x) \div 10)

\* __init__, lines 127-128: int(0.8 * memory_limit_mb - usage).
memory_budget(limit, usage) == int_tenths(8 * limit - 10 * usage)

\* run(), line 249.
OVERHEAD_MB_PER_PROCESS == 40

\* run(), line 250: functional_memory_budget_per_worker.
functional_memory_budget_without_overhead(budget, workers) == budget \div workers

functional_memory_budget_per_worker(budget, workers) ==
  (budget \div workers) - OVERHEAD_MB_PER_PROCESS

Init ==
  /\ corpus \in Corpora
  /\ malformed_lines = {}
  /\ max_entries \in 1..MaxEntries
  /\ memory_limit_mb \in MemoryLimits
  /\ memory_usage \in MemoryUsages
  /\ memory_budget_mb = None
  /\ opc = "init"
  /\ linepos = 0
  /\ batch = <<>>
  /\ total_documents = 0
  /\ sentinels = 0
  /\ queue = <<>>
  /\ stop_event = FALSE
  /\ wpc = [w \in Workers |-> "unstarted"]
  /\ wbatch = [w \in Workers |-> <<>>]
  /\ windex = [w \in Workers |-> EmptyIndex]
  /\ entry_count = [w \in Workers |-> 0]
  /\ counter = [w \in Workers |-> 0]
  /\ wtokens = [w \in Workers |-> 0]
  /\ fragments = [w \in Workers |-> <<>>]
  /\ stats_files = <<>>
  /\ handled = [w \in Workers |-> <<>>]
  /\ document_index = <<>>
  /\ statistics = None
  /\ files = <<>>
  /\ file_pointers = <<>>
  /\ fpos = <<>>
  /\ heap = <<>>
  /\ final_index = <<>>
  /\ lexicon = <<>>
  /\ mpc = "idle"
  /\ merge_calls = 0
  /\ NoQueries

StreamerVars == <<linepos, batch, total_documents, sentinels>>
WorkerVars == <<wpc, wbatch, windex, entry_count, counter, wtokens, fragments,
                stats_files, handled>>
OutputVars == <<document_index, statistics>>

\* Indexer.__init__, lines 124-131: the memory budget; ValueError when it is
\* not positive.
IndexerInit ==
  /\ opc = "init"
  /\ memory_budget_mb' = memory_budget(memory_limit_mb, memory_usage)
  /\ opc' = IF memory_budget(memory_limit_mb, memory_usage) <= 0 THEN "failed" ELSE "start"
  /\ UNCHANGED <<qvars, mvars, corpus, malformed_lines, max_entries, memory_limit_mb, memory_usage,
                 StreamerVars, queue, stop_event, WorkerVars, OutputVars>>

\* run(), lines 249-261: ValueError when the budget of a worker is not
\* positive; else start the worker processes.
StartWorkers ==
  /\ opc = "start"
  /\ IF functional_memory_budget_per_worker(memory_budget_mb, NumberOfWorkers) <= 0
     THEN /\ opc' = "failed"
          /\ UNCHANGED wpc
     ELSE /\ wpc' = [w \in Workers |-> "loop"]
          /\ opc' = "stream"
  /\ UNCHANGED <<qvars, mvars, corpus, malformed_lines, max_entries, MemoryVars, StreamerVars, queue, stop_event, wbatch,
                 windex, entry_count, counter, wtokens, fragments, stats_files,
                 handled, OutputVars>>

\* _stream_documents, lines 169-179: read one line; when the batch is full,
\* put it on the queue, which blocks while the queue is full.
StreamLine ==
  /\ opc = "stream"
  /\ linepos \notin malformed_lines
  /\ linepos < Len(corpus)
  /\ IF Len(batch) + 1 >= BatchSize
     THEN /\ Len(queue) < QueueMaxSize
          /\ queue' = Append(queue, Batch(Append(batch, corpus[linepos + 1])))
          /\ batch' = <<>>
     ELSE /\ batch' = Append(batch, corpus[linepos + 1])
          /\ UNCHANGED queue
  /\ linepos' = linepos + 1
  /\ total_documents' = total_documents + 1
  /\ UNCHANGED <<qvars, mvars, corpus, malformed_lines, max_entries, MemoryVars, opc, sentinels, stop_event, WorkerVars,
                 OutputVars>>

\* Lines 182-183: at the end of the file, put what is left of the batch.
StreamTail ==
  /\ opc = "stream"
  /\ linepos \notin malformed_lines
  /\ linepos = Len(corpus)
  /\ IF batch # <<>>
     THEN /\ Len(queue) < QueueMaxSize
          /\ queue' = Append(queue, Batch(batch))
     ELSE UNCHANGED queue
  /\ batch' = <<>>
  /\ opc' = "sentinels"
  /\ UNCHANGED <<qvars, mvars, corpus, malformed_lines, max_entries, MemoryVars, linepos, total_documents, sentinels,
                 stop_event, WorkerVars, OutputVars>>

\* Line 186: range(number_of_workers), the number of None items put after
\* the last batch.
number_of_sentinels_one_short(number_of_workers) == number_of_workers - 1

number_of_sentinels(number_of_workers) == number_of_workers

\* Lines 186-187: one None per worker.
StreamSentinel ==
  /\ opc = "sentinels"
  /\ sentinels < number_of_sentinels(NumberOfWorkers)
  /\ Len(queue) < QueueMaxSize
  /\ queue' = Append(queue, None)
  /\ sentinels' = sentinels + 1
  /\ UNCHANGED <<qvars, mvars, corpus, malformed_lines, max_entries, MemoryVars, opc, linepos, batch, total_documents,
                 stop_event, WorkerVars, OutputVars>>

\* run(), lines 268-269: join every worker process.  join returns for a
\* process that ended, however it ended; the exit code is not read.
JoinWorkers ==
  /\ opc = "sentinels"
  /\ sentinels = number_of_sentinels(NumberOfWorkers)
  /\ \A w \in Workers : wpc[w] \in {"done", "dead"}
  /\ opc' = "merge"
  /\ UNCHANGED <<qvars, mvars, corpus, malformed_lines, max_entries, MemoryVars, StreamerVars, queue, stop_event,
                 WorkerVars, OutputVars>>

\* -- index_worker

\* Line 54, input_queue.get: the queue without the item taken, its head.
queue_left_in_place(q) == q

queue_get(q) == Tail(q)

\* Lines 52-59: take the next item off the queue; None ends the loop.
WorkerGet(w) ==
  /\ wpc[w] = "loop"
  /\ ~stop_event
  /\ queue # <<>>
  /\ queue' = queue_get(queue)
  /\ IF Head(queue) = None
     THEN /\ wpc' = [wpc EXCEPT ![w] = "drain"]
          /\ UNCHANGED wbatch
     ELSE /\ wpc' = [wpc EXCEPT ![w] = "batch"]
          /\ wbatch' = [wbatch EXCEPT ![w] = Head(queue).docs]
  /\ UNCHANGED <<qvars, mvars, corpus, malformed_lines, max_entries, MemoryVars, opc, StreamerVars, stop_event, windex,
                 entry_count, counter, wtokens, fragments, stats_files, handled,
                 OutputVars>>

\* Lines 91-99: what index_document left, and the flush when it said so.
WorkerIndexed(w, r) ==
  /\ IF r.reached
     THEN /\ files' = [n \in DOMAIN files \cup {index_file_path(w, counter[w])} |->
                         IF n = index_file_path(w, counter[w])
                         THEN write_to_disk(r.index) ELSE files[n]]
          /\ counter' = [counter EXCEPT ![w] = @ + 1]
          /\ windex' = [windex EXCEPT ![w] = EmptyIndex]
          /\ entry_count' = [entry_count EXCEPT ![w] = 0]
     ELSE /\ windex' = [windex EXCEPT ![w] = r.index]
          /\ entry_count' = [entry_count EXCEPT ![w] = r.entry_count]
          /\ UNCHANGED <<files, counter>>

\* Lines 61-99: one document of the batch.  tokenize raises on a text that is
\* no string; nothing catches it, so the worker process ends there.
WorkerDocument(w) ==
  /\ wpc[w] = "batch"
  /\ wbatch[w] # <<>>
  /\ IF Head(wbatch[w]).is_str
     THEN /\ wtokens' = [wtokens EXCEPT ![w] = @ + Len(Head(wbatch[w]).tokens)]
          /\ fragments' = [fragments EXCEPT ![w] = Append(@, document_metadata(Head(wbatch[w])))]
          /\ handled' = [handled EXCEPT ![w] = Append(@, Head(wbatch[w]))]
          /\ WorkerIndexed(w, index_document(windex[w], entry_count[w], Head(wbatch[w]).id,
                                             Head(wbatch[w]).tokens, max_entries))
          /\ wbatch' = [wbatch EXCEPT ![w] = Tail(@)]
          /\ wpc' = [wpc EXCEPT ![w] = IF Tail(wbatch[w]) = <<>> THEN "loop" ELSE "batch"]
     ELSE /\ wpc' = [wpc EXCEPT ![w] = "dead"]
          /\ UNCHANGED <<files, wbatch, windex, entry_count, counter, wtokens,
                         fragments, handled>>
  /\ UNCHANGED <<qvars, file_pointers, fpos, heap, final_index, lexicon, mpc, merge_calls,
                 corpus, malformed_lines, max_entries, MemoryVars, opc, StreamerVars, queue, stop_event,
                 stats_files, OutputVars>>

\* Lines 101-111: after the loop, write what the index still holds, then the
\* worker's statistics file.
WorkerDrain(w) ==
  /\ wpc[w] = "drain"
  /\ IF IndexKeys(windex[w]) # {}
     THEN /\ files' = [n \in DOMAIN files \cup {index_file_path(w, counter[w])} |->
                         IF n = index_file_path(w, counter[w])
                         THEN write_to_disk(windex[w]) ELSE files[n]]
          /\ counter' = [counter EXCEPT ![w] = @ + 1]
     ELSE UNCHANGED <<files, counter>>
  /\ stats_files' = [v \in DOMAIN stats_files \cup {w} |->
                       IF v = w THEN wtokens[w] ELSE stats_files[v]]
  /\ wpc' = [wpc EXCEPT ![w] = "done"]
  /\ UNCHANGED <<qvars, file_pointers, fpos, heap, final_index, lexicon, mpc, merge_calls,
                 corpus, malformed_lines, max_entries, MemoryVars, opc, StreamerVars, queue, stop_event, wbatch,
                 windex, entry_count, wtokens, fragments, handled, OutputVars>>

\* -- after the join

\* run(), line 274: merge(), one call from start to end.
MergeResult(m) ==
  /\ fpos' = m.fpos
  /\ heap' = m.heap
  /\ final_index' = m.out
  /\ lexicon' = m.lex
  /\ mpc' = IF m.err THEN "raised" ELSE "done"
  /\ files' = IF m.err THEN files ELSE remove_files(files, partial_index_files(files))
  /\ opc' = IF m.err THEN "failed" ELSE "merge_docs"

MergeIndexes ==
  /\ opc = "merge"
  /\ file_pointers' = partial_index_files(files)
  /\ MergeResult(merge(files, final_index, lexicon))
  /\ merge_calls' = merge_calls + 1
  /\ UNCHANGED <<qvars, corpus, malformed_lines, max_entries, MemoryVars, StreamerVars, queue, stop_event,
                 WorkerVars, OutputVars>>

\* run(), line 281: merge_document_indexes(), which concatenates the
\* per-worker fragments into document_index.jsonl and deletes them.
RECURSIVE Concat(_, _)
Concat(frags, ws) ==
  IF ws = <<>> THEN <<>> ELSE frags[Head(ws)] \o Concat(frags, Tail(ws))

merge_document_indexes(frags) == Concat(frags, sorted(DOMAIN frags))

MergeDocumentIndexes ==
  /\ opc = "merge_docs"
  /\ document_index' = merge_document_indexes(fragments)
  /\ fragments' = [w \in Workers |-> <<>>]
  /\ opc' = "stats"
  /\ UNCHANGED <<qvars, mvars, corpus, malformed_lines, max_entries, MemoryVars, StreamerVars, queue, stop_event, wpc,
                 wbatch, windex, entry_count, counter, wtokens, stats_files, handled,
                 statistics>>

\* -- _collect_statistics

\* The two values run() unpacks from merge(): the postings and the records
\* of the final index.
total_postings(out) == SumSeq([i \in 1..Len(out) |-> Len(out[i].postings)])

number_of_lists(out) == Len(out)

\* a / b and what is made of it: a value, or ZeroDivisionError.
Quotient(v) == [err |-> FALSE, value |-> v]
ZeroDivisionError == [err |-> TRUE, value |-> 0]

\* round(a / b): to the nearest integer, a tie to the even one.
round_half_even(a, b) ==
  IF 2 * (a % b) < b THEN a \div b
  ELSE IF 2 * (a % b) > b THEN (a \div b) + 1
  ELSE IF (a \div b) % 2 = 0 THEN a \div b ELSE (a \div b) + 1

rounded_division(a, b) ==
  IF b = 0 THEN ZeroDivisionError ELSE Quotient(round_half_even(a, b))

\* Line 208-209: round(total_postings / number_of_lists, 2) if number_of_lists
\* else 0, in hundredths.
average_list_size(postings_total, lists) ==
  IF lists # 0 THEN rounded_division(100 * postings_total, lists) ELSE Quotient(0)

\* Lines 214-219: the sum of total_tokens over the workers' statistics files.
total_tokens(stats) == SumSeq([i \in 1..Len(sorted(DOMAIN stats)) |-> stats[sorted(DOMAIN stats)[i]]])

\* Line 221: round(total_tokens / total_documents) if total_documents else 0.
average_tokens_per_document_unguarded(tokens_total, documents) ==
  rounded_division(tokens_total, documents)

average_tokens_per_document(tokens_total, documents) ==
  IF documents # 0 THEN rounded_division(tokens_total, documents) ELSE Quotient(0)

\* Lines 201-234: the statistics are written and the workers' statistics
\* files removed, unless a division raised before.
StatisticsCollected(lists, list_size, tokens_average) ==
  IF list_size.err \/ tokens_average.err
  THEN /\ opc' = "failed"
       /\ UNCHANGED <<statistics, stats_files>>
  ELSE /\ statistics' = [number_of_lists |-> lists,
                         average_list_size |-> list_size.value,
                         number_of_documents |-> total_documents,
                         average_tokens_per_document |-> tokens_average.value]
       /\ stats_files' = <<>>
       /\ opc' = "done"

\* run(), lines 290-292, and _collect_statistics: set the stop event, then
\* collect the statistics.
CollectStatistics ==
  /\ opc = "stats"
  /\ stop_event' = TRUE
  /\ StatisticsCollected(number_of_lists(final_index),
                         average_list_size(total_postings(final_index), number_of_lists(final_index)),
                         average_tokens_per_document(total_tokens(stats_files), total_documents))
  /\ UNCHANGED <<qvars, mvars, corpus, malformed_lines, max_entries, MemoryVars, StreamerVars, queue, wpc, wbatch, windex,
                 entry_count, counter, wtokens, fragments, handled, document_index>>

Next ==
  \/ IndexerInit
  \/ StartWorkers
  \/ StreamLine
  \/ StreamTail
  \/ StreamSentinel
  \/ JoinWorkers
  \/ \E w \in Workers : WorkerGet(w)
  \/ \E w \in Workers : WorkerDocument(w)
  \/ \E w \in Workers : WorkerDrain(w)
  \/ MergeIndexes
  \/ MergeDocumentIndexes
  \/ CollectStatistics

Spec == Init /\ [][Next]_vars

\* The processes of a run: the orchestrator (which is also the streamer) and
\* the workers.  The operating system lets every process that can take a
\* step take one eventually.
Orchestrator ==
  \/ IndexerInit
  \/ StartWorkers
  \/ StreamLine
  \/ StreamTail
  \/ StreamSentinel
  \/ JoinWorkers
  \/ MergeIndexes
  \/ MergeDocumentIndexes
  \/ CollectStatistics

Worker(w) == WorkerGet(w) \/ WorkerDocument(w) \/ WorkerDrain(w)

\* The corpora of the runs checked for progress have up to MaxFairDocs lines.
MaxFairDocs == 1

InitFair == Init /\ Len(corpus) <= MaxFairDocs

FairSpec ==
  /\ InitFair
  /\ [][Next]_vars
  /\ WF_vars(Orchestrator)
  /\ \A w \in Workers : WF_vars(Worker(w))

\* ------------------------------------- index_worker and its stop_event
\* SpecStop: index_worker takes stop_event as an argument.  run() sets the
\* event at line 290 only, when every worker has ended, so in a run no worker
\* ever finds it set; here the event is one that its holder may set at any
\* time while the workers run, as index_worker's signature allows.

\* stop_event.set() by the holder of the event.
SetStop ==
  /\ opc \in {"stream", "sentinels"}
  /\ ~stop_event
  /\ stop_event' = TRUE
  /\ UNCHANGED <<qvars, mvars, corpus, malformed_lines, max_entries, MemoryVars, opc, StreamerVars, queue,
                 WorkerVars, OutputVars>>

\* Line 52: the loop test finds the event set; the worker leaves the loop
\* for lines 101-111.  The test is made at the top of the loop only.
WorkerStopAnywhere(w) ==
  /\ wpc[w] \in {"loop", "batch"}
  /\ stop_event
  /\ wpc' = [wpc EXCEPT ![w] = "drain"]
  /\ UNCHANGED <<qvars, mvars, corpus, malformed_lines, max_entries, MemoryVars, opc, StreamerVars, queue,
                 stop_event, wbatch, windex, entry_count, counter, wtokens, fragments,
                 stats_files, handled, OutputVars>>

WorkerStop(w) ==
  /\ wpc[w] = "loop"
  /\ stop_event
  /\ wpc' = [wpc EXCEPT ![w] = "drain"]
  /\ UNCHANGED <<qvars, mvars, corpus, malformed_lines, max_entries, MemoryVars, opc, StreamerVars, queue,
                 stop_event, wbatch, windex, entry_count, counter, wtokens, fragments,
                 stats_files, handled, OutputVars>>

Streamer == StreamLine \/ StreamTail \/ StreamSentinel

StoppableWorker(w) == Worker(w) \/ WorkerStop(w)

\* A run whose start-up checks pass.
InitStop ==
  /\ InitFair
  /\ functional_memory_budget_per_worker(memory_budget(memory_limit_mb, memory_usage),
                                         NumberOfWorkers) > 0

NextStop ==
  \/ IndexerInit
  \/ StartWorkers
  \/ Streamer
  \/ SetStop
  \/ \E w \in Workers : StoppableWorker(w)

SpecStop ==
  /\ InitStop
  /\ [][NextStop]_vars
  /\ WF_vars(IndexerInit \/ StartWorkers \/ Streamer)
  /\ \A w \in Workers : WF_vars(StoppableWorker(w))

\* --------------------------------------------- a malformed corpus line
\* SpecMalformed: the corpus may have one line that json.loads or the
\* lookup of "id" and "text" rejects.

\* _stream_documents, lines 170-173: the line raises; nothing in
\* _stream_documents or run() catches it, so run() ends there, with no
\* sentinel put and stop_event not set, and the main thread with it.
StreamError ==
  /\ opc = "stream"
  /\ linepos \in malformed_lines
  /\ opc' = "raised"
  /\ UNCHANGED <<qvars, mvars, corpus, malformed_lines, max_entries, MemoryVars, StreamerVars,
                 queue, stop_event, WorkerVars, OutputVars>>

\* The worker processes are started without daemon=True (lines 255-260), so
\* the interpreter joins them when the main thread has ended; the process
\* exits, with the failure, once every worker has.
ProcessExit ==
  /\ opc = "raised"
  /\ \A w \in Workers : wpc[w] \in {"done", "dead"}
  /\ opc' = "failed"
  /\ UNCHANGED <<qvars, mvars, corpus, malformed_lines, max_entries, MemoryVars, StreamerVars,
                 queue, stop_event, WorkerVars, OutputVars>>

\* The corpora tried: up to MaxMalformedDocs documents of at most one
\* token, and at most one malformed line somewhere among them.
MaxMalformedDocs == 2

InitMalformed ==
  /\ \E c \in Corpora :
       /\ Len(c) <= MaxMalformedDocs
       /\ \A i \in 1..Len(c) : c[i].id = 1 /\ Len(c[i].tokens) <= 1
       /\ \E lines \in {{}} \cup {{k} : k \in 0..Len(c)} :
            /\ corpus = c
            /\ malformed_lines = lines
  /\ max_entries \in 1..MaxEntries
  /\ memory_limit_mb = 200
  /\ memory_usage = 30
  /\ memory_budget_mb = None
  /\ opc = "init"
  /\ linepos = 0
  /\ batch = <<>>
  /\ total_documents = 0
  /\ sentinels = 0
  /\ queue = <<>>
  /\ stop_event = FALSE
  /\ wpc = [w \in Workers |-> "unstarted"]
  /\ wbatch = [w \in Workers |-> <<>>]
  /\ windex = [w \in Workers |-> EmptyIndex]
  /\ entry_count = [w \in Workers |-> 0]
  /\ counter = [w \in Workers |-> 0]
  /\ wtokens = [w \in Workers |-> 0]
  /\ fragments = [w \in Workers |-> <<>>]
  /\ stats_files = <<>>
  /\ handled = [w \in Workers |-> <<>>]
  /\ document_index = <<>>
  /\ statistics = None
  /\ files = <<>>
  /\ file_pointers = <<>>
  /\ fpos = <<>>
  /\ heap = <<>>
  /\ final_index = <<>>
  /\ lexicon = <<>>
  /\ mpc = "idle"
  /\ merge_calls = 0
  /\ NoQueries

MainProcess == IndexerInit \/ StartWorkers \/ Streamer \/ StreamError \/ ProcessExit

NextMalformed == MainProcess \/ \E w \in Workers : Worker(w)

SpecMalformed ==
  /\ InitMalformed
  /\ [][NextMalformed]_vars
  /\ WF_vars(MainProcess)
  /\ \A w \in Workers : WF_vars(Worker(w))

\* ------------------------------------------------- merge(), step by step
\* SpecMerge: no indexing run is going on; merge() is called on a directory
\* of partial files.
NoRun ==
  /\ corpus = <<>>
  /\ malformed_lines = {}
  /\ max_entries = 1
  /\ memory_limit_mb = 200
  /\ memory_usage = 30
  /\ memory_budget_mb = None
  /\ opc = "idle"
  /\ linepos = 0
  /\ batch = <<>>
  /\ total_documents = 0
  /\ sentinels = 0
  /\ queue = <<>>
  /\ stop_event = FALSE
  /\ wpc = [w \in Workers |-> "unstarted"]
  /\ wbatch = [w \in Workers |-> <<>>]
  /\ windex = [w \in Workers |-> EmptyIndex]
  /\ entry_count = [w \in Workers |-> 0]
  /\ counter = [w \in Workers |-> 0]
  /\ wtokens = [w \in Workers |-> 0]
  /\ fragments = [w \in Workers |-> <<>>]
  /\ stats_files = <<>>
  /\ handled = [w \in Workers |-> <<>>]
  /\ document_index = <<>>
  /\ statistics = None

MergeSet(m) ==
  /\ fpos' = m.fpos
  /\ heap' = m.heap
  /\ final_index' = m.out
  /\ lexicon' = m.lex
  /\ mpc' = IF m.err THEN "raised" ELSE "loop"

MergeOpen ==
  /\ mpc \in {"idle", "done"}
  /\ merge_calls < MaxMergeCalls
  /\ file_pointers' = partial_index_files(files)
  /\ MergeSet(merge_begin(files, final_index, lexicon))
  /\ merge_calls' = merge_calls + 1
  /\ UNCHANGED <<files, pvars, qvars>>

MergeIteration ==
  /\ mpc = "loop"
  /\ heap # <<>>
  /\ MergeSet(merge_iteration(files, MergeState(heap, fpos, final_index, lexicon, FALSE)))
  /\ UNCHANGED <<files, file_pointers, merge_calls, pvars, qvars>>

MergeClose ==
  /\ mpc = "loop"
  /\ heap = <<>>
  /\ files' = remove_files(files, file_pointers)
  /\ mpc' = "done"
  /\ UNCHANGED <<file_pointers, fpos, heap, final_index, lexicon, merge_calls, pvars, qvars>>

\* The directories SpecMerge starts from: up to MaxFiles partial files named
\* index_<w>_<c>.jsonl, each as write_to_disk leaves a file: one record per
\* token, ascending, no empty posting list.
InMemoryIndexes ==
  {ix \in [Tokens -> {<<>>} \cup {<<p>> : p \in Postings}] : IndexKeys(ix) # {}}

MergeDirectories ==
  UNION {[{FileName("index_", 0, c) : c \in 1..n} -> {write_to_disk(ix) : ix \in InMemoryIndexes}]
         : n \in 0..MaxFiles}

InitMerge ==
  /\ files \in MergeDirectories
  /\ file_pointers = <<>>
  /\ fpos = <<>>
  /\ heap = <<>>
  /\ final_index = <<>>
  /\ lexicon = <<>>
  /\ mpc = "idle"
  /\ merge_calls = 0
  /\ NoRun
  /\ NoQueries

NextMerge == MergeOpen \/ MergeIteration \/ MergeClose

SpecMerge == InitMerge /\ [][NextMerge]_vars

\* ------------------------------------------------------------- Processor
\* SpecQuery: process_queries over a loaded inverted index.

\* Queries of a run (MaxQueries) and tokens of a query (MaxQueryLen).
MaxQueries == 2
MaxQueryLen == 2

\* self.inverted_index.get(token, []).
index_get(index, token) == IF token \in DOMAIN index THEN index[token] ELSE <<>>

\* set(docid for docid, _ in postings).
docid_set(postings) == {postings[i][1] : i \in 1..Len(postings)}

\* set.intersection(*postings): the first set, cut by each further one.
RECURSIVE intersection(_)
intersection(sets) ==
  IF Len(sets) = 1 THEN Head(sets) ELSE Head(sets) \cap intersection(Tail(sets))

RECURSIVE union_all(_)
union_all(sets) ==
  IF sets = <<>> THEN {} ELSE Head(sets) \cup union_all(Tail(sets))

\* _get_matching_docids.
get_matching_docids_any(index, tokens) ==
  union_all([i \in 1..Len(tokens) |-> docid_set(index_get(index, tokens[i]))])

get_matching_docids_known(index, tokens) ==
  (IF SelectSeq(tokens, LAMBDA t : t \in DOMAIN index) # <<>>
   THEN intersection([i \in 1..Len(SelectSeq(tokens, LAMBDA t : t \in DOMAIN index)) |->
                        docid_set(index[SelectSeq(tokens, LAMBDA t : t \in DOMAIN index)[i]])])
   ELSE {})

get_matching_docids(index, tokens) ==
  IF tokens # <<>>
  THEN intersection([i \in 1..Len(tokens) |-> docid_set(index_get(index, tokens[i]))])
  ELSE {}

\* -- Scorer

\* A call that returns a value, and one that raises KeyError.
Value(v) == [err |-> FALSE, value |-> v]
KeyError == [err |-> TRUE, value |-> 0]

\* np.log for the arguments that arise: LnMilli[n] is 1000 * ln(n) rounded,
\* and ln_milli(a, b) is 1000 * ln(a / b) to within one unit.  Scores are
\* kept in these thousandths.
LnMilli == <<0, 693, 1099, 1386, 1609, 1792, 1946, 2079, 2197, 2303>>

ln_milli(a, b) == LnMilli[a] - LnMilli[b]

\* Lines 55-58: the idf of a token of document frequency df.  For bm25,
\* 1 + (N - df + 0.5) / (df + 0.5) is (2N + 2) / (2df + 1).
idf(rk, N, df) ==
  IF rk = "bm25" THEN ln_milli(2 * N + 2, 2 * df + 1) ELSE ln_milli(N + 1, df + 1)

\* Scorer.compute_idf, lines 49-63: 0.0 for a token without a lexicon
\* record; else token_info['document_frequency'], which raises KeyError when
\* the record has no such field.  A record of lexicon.jsonl is a
\* lexicon_entry of the merger, which has none.
compute_idf(lex, token) ==
  IF token \notin DOMAIN lex THEN Value(0)
  ELSE IF "document_frequency" \notin DOMAIN lex[token] THEN KeyError
  ELSE Value(idf(ranker, total_docs, lex[token].document_frequency))

\* doc_info['token_count'] on the None that document_index.get gives for a
\* docid without a record.
TypeError == [err |-> TRUE, value |-> 0]

\* Scorer.compute_tfidf, lines 77-84: 0.0 without a record of the document;
\* term_frequency / token_count, which raises ZeroDivisionError when the
\* token_count is 0; then the idf.
tfidf_times_idf(term_frequency, token_count, i) ==
  IF i.err THEN i ELSE Value((term_frequency * i.value) \div token_count)

compute_tfidf(lex, token, term_frequency, docid) ==
  IF docid \notin DOMAIN scorer_document_index THEN Value(0)
  ELSE IF scorer_document_index[docid].token_count = 0 THEN ZeroDivisionError
  ELSE tfidf_times_idf(term_frequency, scorer_document_index[docid].token_count,
                       compute_idf(lex, token))

\* Scorer.compute_bm25, lines 98-111: the idf first; then, with k1 = 1.5
\* and b = 0.75, numerator tf * 2.5 and denominator
\* tf + 1.5 * (0.25 + 0.75 * token_count / avg), whose division by avg
\* raises ZeroDivisionError when avg is 0; numerator / denominator is
\* 20 * tf * avg / (8 * tf * avg + 3 * avg + 9 * token_count).
bm25_divided(i, tf, token_count, avg) ==
  IF avg = 0 THEN ZeroDivisionError
  ELSE IF 8 * tf * avg + 3 * avg + 9 * token_count = 0 THEN Value(0)
  ELSE Value((i * 20 * tf * avg) \div (8 * tf * avg + 3 * avg + 9 * token_count))

bm25_with_idf(i, term_frequency, docid) ==
  IF i.err THEN i
  ELSE IF docid \notin DOMAIN scorer_document_index THEN TypeError
  ELSE bm25_divided(i.value, term_frequency, scorer_document_index[docid].token_count,
                    avg_tokens_per_doc)

compute_bm25(lex, token, term_frequency, docid) ==
  bm25_with_idf(compute_idf(lex, token), term_frequency, docid)

\* _score_document, lines 148-151: the ranker's contribution.
compute_score(lex, rk, token, frequency, docid) ==
  IF rk = "tfidf" THEN compute_tfidf(lex, token, frequency, docid)
  ELSE compute_bm25(lex, token, frequency, docid)

\* Processor._score_document: the contributions of the postings of docid,
\* token by token, added up; the first call that raises ends it.
RECURSIVE score_postings(_, _, _, _, _, _)
score_added(lex, rk, docid, token, postings, score, c) ==
  IF c.err THEN KeyError
  ELSE score_postings(lex, rk, docid, token, postings, Value(score.value + c.value))

score_postings(lex, rk, docid, token, postings, score) ==
  IF postings = <<>> THEN score
  ELSE IF Head(postings)[1] # docid
       THEN score_postings(lex, rk, docid, token, Tail(postings), score)
       ELSE score_added(lex, rk, docid, token, Tail(postings), score,
                        compute_score(lex, rk, token, Head(postings)[2], docid))

RECURSIVE score_tokens(_, _, _, _, _, _)
score_next(index, lex, rk, docid, tokens, score) ==
  IF score.err THEN KeyError
  ELSE score_tokens(index, lex, rk, docid, tokens, score)

score_tokens(index, lex, rk, docid, tokens, score) ==
  IF tokens = <<>> THEN score
  ELSE score_next(index, lex, rk, docid, Tail(tokens),
                  score_postings(lex, rk, docid, Head(tokens),
                                 index_get(index, Head(tokens)), score))

score_document(index, lex, rk, docid, tokens) ==
  score_tokens(index, lex, rk, docid, tokens, Value(0))

\* Processor._rank_documents, k = 10.
TopK == 10

\* heapq.nlargest(k, heap) over the tuples (score, docid): the k largest,
\* largest first.
PairLess(a, b) == IF a[1] # b[1] THEN a[1] < b[1] ELSE a[2] < b[2]

RECURSIVE nlargest(_, _)
nlargest(k, pairs) ==
  IF k = 0 \/ pairs = {} THEN <<>>
  ELSE <<CHOOSE a \in pairs : \A b \in pairs \ {a} : PairLess(b, a)>>
       \o nlargest(k - 1, pairs \ {CHOOSE a \in pairs : \A b \in pairs \ {a} : PairLess(b, a)})

\* _rank_documents: [err, list]; it raises when the scoring of a candidate does.
rank_documents(index, lex, rk, tokens, cands) ==
  IF \E d \in cands : score_document(index, lex, rk, d, tokens).err
  THEN [err |-> TRUE, list |-> <<>>]
  ELSE [err |-> FALSE,
        list |-> nlargest(TopK, {<<score_document(index, lex, rk, d, tokens).value, d>> : d \in cands})]

\* process_queries, lines 221-237: no candidates give the empty result list
\* without ranking; else the ranked list is displayed, and an exception of
\* the ranking ends the process.
QueryRanked(cands, r) ==
  /\ docids' = Append(docids, cands)
  /\ IF r.err
     THEN /\ qpc' = "raised"
          /\ UNCHANGED results
     ELSE /\ results' = Append(results, r.list)
          /\ UNCHANGED qpc

QueryMatched(tokens, cands) ==
  QueryRanked(cands,
              IF cands = {} THEN [err |-> FALSE, list |-> <<>>]
              ELSE rank_documents(inverted_index, index_lexicon, ranker, tokens, cands))

\* process_queries, lines 212-237: one iteration of the loop over the queries.
ProcessQuery ==
  /\ qpc = "loop"
  /\ query_i < Len(query_tokens_list)
  /\ QueryMatched(query_tokens_list[query_i + 1],
                  get_matching_docids(inverted_index, query_tokens_list[query_i + 1]))
  /\ query_i' = query_i + 1
  /\ UNCHANGED <<inverted_index, query_tokens_list, index_lexicon, ranker, total_docs,
                 avg_tokens_per_doc, scorer_document_index, mvars, pvars>>

\* The statistics and the document index the processor loads: a corpus of
\* three documents whose rounded average of tokens per document is 0 or 1,
\* and a token_count of 0 or 1 for every docid.  (A docid that two corpus
\* lines share has the token_count of the later line, which may be 0.)
DocumentCounts == {3}
AverageTokenCounts == {0, 1}
DocumentIndexes == [DocIds -> [token_count : {0, 1}]]

\* The loaded indexes: some tokens with a posting list of one or two
\* postings, the other tokens absent.
QueryPostingLists ==
  {<<p>> : p \in DocIds \X {1}} \cup {<<p, q>> : p \in DocIds \X {1}, q \in DocIds \X {1}}

LoadedIndexes == UNION {[S -> QueryPostingLists] : S \in SUBSET Tokens}

Queries == UNION {[1..n -> Tokens] : n \in 0..MaxQueryLen}

NoMerge ==
  /\ files = <<>>
  /\ file_pointers = <<>>
  /\ fpos = <<>>
  /\ heap = <<>>
  /\ final_index = <<>>
  /\ lexicon = <<>>
  /\ mpc = "idle"
  /\ merge_calls = 0

\* needed_tokens, line 28.
needed_tokens(token_lists) == UNION {Range(token_lists[i]) : i \in 1..Len(token_lists)}

\* _load_inverted_index: the records of the final index whose token is needed.
load_inverted_index(index_file, needed) ==
  [t \in DOMAIN index_file \cap needed |-> index_file[t]]

\* _load_jsonl_with_filter on lexicon.jsonl, whose records the merger wrote
\* with the final index.
load_lexicon(index_file, needed) ==
  [t \in DOMAIN index_file \cap needed |-> lexicon_entry(t, index_file[t])]

\* Processor.__init__ over a final index, its lexicon and a list of queries.
Loaded(index_file, token_lists) ==
  /\ query_tokens_list = token_lists
  /\ inverted_index = load_inverted_index(index_file, needed_tokens(token_lists))
  /\ index_lexicon = load_lexicon(index_file, needed_tokens(token_lists))

InitQuery ==
  /\ \E index_file \in LoadedIndexes :
       \E token_lists \in UNION {[1..n -> Queries] : n \in 0..MaxQueries} :
         Loaded(index_file, token_lists)
  /\ ranker \in {"bm25", "tfidf"}
  /\ total_docs \in DocumentCounts
  /\ avg_tokens_per_doc \in AverageTokenCounts
  /\ scorer_document_index \in DocumentIndexes
  /\ results = <<>>
  /\ qpc = "loop"
  /\ query_i = 0
  /\ docids = <<>>
  /\ NoMerge
  /\ NoRun

NextQuery == ProcessQuery

SpecQuery == InitQuery /\ [][NextQuery]_vars

\* ------------------------------------------------------------ properties

\* The (token, docid, tf) triples of a sequence of records.
RecordTriples(recs) ==
  UNION {{<<recs[i].token, recs[i].postings[j][1], recs[i].postings[j][2]>> :
            j \in 1..Len(recs[i].postings)} : i \in 1..Len(recs)}

PostingDocids(recs) == {t[2] : t \in RecordTriples(recs)}

RECURSIVE TotalTf(_)
TotalTf(postings) ==
  IF postings = <<>> THEN 0 ELSE Head(postings)[2] + TotalTf(Tail(postings))

\* The index a worker holds after a sequence of documents when the threshold
\* is never reached: index_document on each, in order.
RECURSIVE IndexOf(_, _)
IndexOf(index, docs) ==
  IF docs = <<>> THEN index
  ELSE IndexOf(index_document(index, 0, Head(docs).id, Head(docs).tokens,
                              Len(Head(docs).tokens) + 1).index,
               Tail(docs))

\* The number of postings of an in-memory index.
Entries(index) ==
  SumSeq([i \in 1..Len(sorted(DOMAIN index)) |-> Len(index[sorted(DOMAIN index)[i]])])

\* Every worker has left its loop and written what it held.
AllDone == \A w \in Workers : wpc[w] = "done"

\* The files of a directory under the names merge()'s listing accepts.
Listed(fs) ==
  [n \in {FileName("index_", m.worker, m.counter) : m \in DOMAIN fs} |->
     fs[FileName("partial_index_", n.worker, n.counter)]]

\* The directory a single worker leaves for the whole corpus when the
\* threshold is never reached: one file, or none for an empty index.
SingleWorkerFiles ==
  [n \in (IF IndexKeys(IndexOf(EmptyIndex, corpus)) = {} THEN {} ELSE {FileName("index_", 0, 0)}) |->
     write_to_disk(IndexOf(EmptyIndex, corpus))]

\* C1: after merge the final inverted index is strictly increasing by token:
\* each record's token is greater than the previous record's token (so no
\* token has two records), for every number of partial files and every
\* spread of the tokens over them.
C1_StrictlyIncreasing ==
  \A i \in 1..(Len(final_index) - 1) : final_index[i].token < final_index[i + 1].token

\* C1, its case: merge() has finished over two files that share a token, and
\* the final index has two records, one of them merged from both files.
C1_Witness ==
  /\ mpc = "done"
  /\ Len(file_pointers) = 2
  /\ Len(final_index) = 2
  /\ \E i \in 1..Len(final_index) : Len(final_index[i].postings) = 2

\* C2: the final index holds one posting per (token, docid): postings for the
\* same (t, d) that reach the merger from different partial files are
\* combined into a single posting (whose tf is their sum).
C2_Coalesced ==
  mpc = "done" =>
    \A i \in 1..Len(final_index) :
      \A j, k \in 1..Len(final_index[i].postings) :
        j # k => final_index[i].postings[j][1] # final_index[i].postings[k][1]

C5_LexiconMatchesIndex ==
  /\ Len(lexicon) = Len(final_index)
  /\ \A i \in 1..Len(lexicon) :
       /\ lexicon[i].token = final_index[i].token
       /\ lexicon[i].doc_frequency = Len(final_index[i].postings)
       /\ lexicon[i].term_frequency_corpus = TotalTf(final_index[i].postings)

\* C5, its case: merge() has finished and wrote a token whose posting list
\* was joined from two files, with tf 1 and tf 2.
C5_Witness ==
  /\ mpc = "done"
  /\ \E i \in 1..Len(lexicon) :
       /\ Len(final_index[i].postings) = 2
       /\ lexicon[i].doc_frequency = 2
       /\ lexicon[i].term_frequency_corpus = 3

\* C6: when a worker process has ended abnormally the orchestrator fails the
\* run: it does not go on to call merge() and does not write the statistics.
C6_DeadWorkerFailsRun ==
  (\E w \in Workers : wpc[w] = "dead") => (merge_calls = 0 /\ statistics = None)

\* C7: merge() called again when the final index exists and no partial file
\* remains is a no-op: the final index and the lexicon stay as they were.
C7_RerunIsNoOp ==
  [][(/\ mpc = "done"
      /\ partial_index_files(files) = <<>>
      /\ merge_calls' = merge_calls + 1)
     => (final_index' = final_index /\ lexicon' = lexicon)]_vars

\* C8: when merge() has completed, every partial file a worker flush wrote
\* has been opened by the merger and no longer exists.
C8_PartialFilesConsumed ==
  mpc = "done" =>
    \A w \in Workers : \A c \in 0..(counter[w] - 1) :
      /\ \E i \in 1..Len(file_pointers) : file_pointers[i] = index_file_path(w, c)
      /\ index_file_path(w, c) \notin DOMAIN files

C10_CandidatesAreIntersection ==
  \A q \in 1..Len(docids) :
    docids[q] =
      IF query_tokens_list[q] = <<>> THEN {}
      ELSE {d \in DocIds :
              \A k \in 1..Len(query_tokens_list[q]) :
                /\ query_tokens_list[q][k] \in DOMAIN inverted_index
                /\ \E j \in 1..Len(inverted_index[query_tokens_list[q][k]]) :
                     inverted_index[query_tokens_list[q][k]][j][1] = d}

\* C10, its case: a processed query of two different tokens, both loaded, one
\* listing both documents and the other only one; the candidate set is that one.
C10_Witness ==
  \E q \in 1..Len(docids) :
    /\ query_tokens_list[q] = <<1, 2>>
    /\ DOMAIN inverted_index = {1, 2}
    /\ docid_set(inverted_index[1]) = {1, 2}
    /\ docid_set(inverted_index[2]) = {2}
    /\ docids[q] = {2}

\* C11: a query with a token that has no lexicon record and no posting list
\* gets the empty result list, raises nothing, and the loop goes on to the
\* next query.
C11_AbsentTokenEmptyResult ==
  \A q \in 1..query_i :
    (\E k \in 1..Len(query_tokens_list[q]) :
       /\ query_tokens_list[q][k] \notin DOMAIN index_lexicon
       /\ query_tokens_list[q][k] \notin DOMAIN inverted_index)
    => /\ Len(results) >= q
       /\ results[q] = <<>>
       /\ (q = query_i => qpc = "loop")

\* C11, its case: the first query had a loaded token and an absent one, got
\* the empty list, and the second query was processed after it.
C11_Witness ==
  /\ query_i = 2
  /\ query_tokens_list[1] = <<1, 2>>
  /\ DOMAIN inverted_index = {1}
  /\ DOMAIN index_lexicon = {1}
  /\ results[1] = <<>>

\* C12: every processed query has a result list of min(10, |candidate set|)
\* entries (score, docid) of candidates, sorted by score descending, and no
\* candidate left out has a score greater than an emitted entry's score.
C12_TopKByScore ==
  \A q \in 1..Len(docids) :
    /\ Len(results) >= q
    /\ Len(results[q]) = (IF Cardinality(docids[q]) < TopK THEN Cardinality(docids[q]) ELSE TopK)
    /\ \A i \in 1..Len(results[q]) : results[q][i][2] \in docids[q]
    /\ \A i \in 1..(Len(results[q]) - 1) : results[q][i][1] >= results[q][i + 1][1]
    /\ \A d \in docids[q] \ {results[q][i][2] : i \in 1..Len(results[q])} :
         \A i \in 1..Len(results[q]) :
           score_document(inverted_index, index_lexicon, ranker, d, query_tokens_list[q]).value
             <= results[q][i][1]

\* The orders of the tokens of a query.
Permuted(tokens) ==
  {p \in [1..Len(tokens) -> Range(tokens)] :
     \A t \in Range(tokens) :
       Cardinality({i \in 1..Len(tokens) : p[i] = t})
         = Cardinality({i \in 1..Len(tokens) : tokens[i] = t})}

C15_LexiconFields ==
  \A t \in DOMAIN index_lexicon :
    /\ {"token", "document_frequency", "term_frequency_corpus"} \subseteq DOMAIN index_lexicon[t]
    /\ ~compute_idf(index_lexicon, t).err

\* C16: when 0.8 * limit - usage leaves no whole megabyte, or when the share
\* of a worker less the 40 MB overhead is not positive, the run never gets
\* past its start: no worker is started, nothing is enqueued and no line
\* of the corpus is read.
C16_LowBudgetFailsBeforeWorkers ==
  (\/ 8 * memory_limit_mb - 10 * memory_usage < 10
   \/ ((8 * memory_limit_mb - 10 * memory_usage) \div 10) \div NumberOfWorkers <= 40)
    => /\ opc \in {"init", "start", "failed"}
       /\ \A w \in Workers : wpc[w] = "unstarted"
       /\ queue = <<>>
       /\ linepos = 0
       /\ sentinels = 0

\* C16, its case: the budget was positive, the share of a worker was not,
\* and run() has raised with no worker started.
C16_Witness ==
  /\ opc = "failed"
  /\ memory_budget(memory_limit_mb, memory_usage) > 0
  /\ functional_memory_budget_per_worker(memory_budget(memory_limit_mb, memory_usage), NumberOfWorkers) <= 0
  /\ \A w \in Workers : wpc[w] = "unstarted"

\* What a worker in its loop holds of postings: the in-memory index and the
\* file of its latest flush.
HeldTriples(w) ==
  RecordTriples(write_to_disk(windex[w]))
    \cup (IF counter[w] > 0 THEN RecordTriples(files[index_file_path(w, counter[w] - 1)]) ELSE {})

\* The postings index_document(doc.id, Counter(doc.tokens)) is to append.
DocumentTriples(doc) ==
  {<<doc.tokens[i], doc.id, CounterValue(doc.tokens, doc.tokens[i])>> : i \in 1..Len(doc.tokens)}

\* C17: after a call index_document(docid, m), also the call on which the
\* counter reaches max_entries, every token t of m has the posting
\* (docid, m[t]): it is in the in-memory index or, when the call made the
\* worker flush, in the file it flushed to.
C17_EveryTokenPosted ==
  \A w \in Workers :
    (wpc[w] \in {"loop", "batch"} /\ handled[w] # <<>>)
      => DocumentTriples(handled[w][Len(handled[w])]) \subseteq HeldTriples(w)

\* No document of the corpus makes tokenize raise.
NoWorkerErrors == \A i \in 1..Len(corpus) : corpus[i].is_str

\* The sentinels come after the last batch, and there are at most one per
\* worker of them.
SentinelsAfterLastBatch ==
  /\ sentinels <= NumberOfWorkers
  /\ sentinels > 0 => (linepos = Len(corpus) /\ batch = <<>>)
  /\ \A i, j \in 1..Len(queue) : (i < j /\ queue[i] = None) => queue[j] = None

\* The streamer has read the whole corpus and put its last batch.
StreamerAtEnd == opc = "sentinels"

\* The join has returned with every worker having left its loop on a
\* sentinel, one sentinel each, its index written when it held postings and
\* its stats file written; nothing is left in the queue.
WorkersEndedOnSentinels ==
  /\ opc = "merge"
  /\ sentinels = NumberOfWorkers
  /\ queue = <<>>
  /\ \A w \in Workers :
       /\ wpc[w] = "done"
       /\ w \in DOMAIN stats_files
       /\ IndexKeys(windex[w]) # {} =>
            /\ counter[w] > 0
            /\ index_file_path(w, counter[w] - 1) \in DOMAIN files
            /\ files[index_file_path(w, counter[w] - 1)] = write_to_disk(windex[w])

TimesRead(d) == Cardinality({i \in 1..linepos : corpus[i] = d})

TimesIndexed(d) ==
  Cardinality(UNION {{<<w, i>> : i \in {k \in 1..Len(handled[w]) : handled[w][k] = d}} :
                       w \in Workers})

\* The join on the workers has returned.
Joined == opc \in {"merge", "merge_docs", "stats", "done"}

Drained(w) ==
  /\ wpc[w] = "done"
  /\ w \in DOMAIN stats_files
  /\ IndexKeys(windex[w]) # {} =>
       /\ counter[w] > 0
       /\ index_file_path(w, counter[w] - 1) \in DOMAIN files
       /\ files[index_file_path(w, counter[w] - 1)] = write_to_disk(windex[w])

\* A worker is out of its loop only with no document of a dequeued batch
\* left: the stop signal is seen between batches.
StopOnlyBetweenBatches ==
  \A w \in Workers : wpc[w] \in {"drain", "done"} => wbatch[w] = <<>>

NewPostings(w, t) ==
  IF /\ wpc[w] = "batch"
     /\ wbatch[w] # <<>>
     /\ \E i \in 1..Len(Head(wbatch[w]).tokens) : Head(wbatch[w]).tokens[i] = t
  THEN <<<<Head(wbatch[w]).id, CounterValue(Head(wbatch[w]).tokens, t)>>>>
  ELSE <<>>

\* File F is what worker w's flush of this step is to write: records in
\* strictly ascending token order, one for every token the index held, each
\* with the postings the index held for it, in their order, followed by the
\* posting of the document being indexed if that was appended.
FileOfFlush(w, F) ==
  /\ \A i \in 1..(Len(F) - 1) : F[i].token < F[i + 1].token
  /\ IndexKeys(windex[w]) \subseteq {F[i].token : i \in 1..Len(F)}
  /\ \A i \in 1..Len(F) :
       /\ F[i].postings # <<>>
       /\ \/ F[i].postings = windex[w][F[i].token]
          \/ F[i].postings = windex[w][F[i].token] \o NewPostings(w, F[i].token)

\* C21: a step that writes a file of the index directory writes a file that
\* was not there, named after the worker that takes the step and its flush
\* counter, which the step increments; the file holds one record per token
\* of the flushed index, in strictly ascending token order, each with that
\* token's postings in insertion order.
C21_PartialFilesSortedAndDistinct ==
  [][\A n \in DOMAIN files' :
        (n \notin DOMAIN files \/ files'[n] # files[n]) =>
          /\ n \notin DOMAIN files
          /\ \E w \in Workers :
               /\ n = index_file_path(w, counter[w])
               /\ counter'[w] = counter[w] + 1
               /\ FileOfFlush(w, files'[n])]_vars

\* C21, its case: a worker has flushed twice, to two files that are both
\* there, one of them with two records.
C21_Witness ==
  \E w \in Workers :
    /\ counter[w] >= 2
    /\ index_file_path(w, 0) \in DOMAIN files
    /\ index_file_path(w, 1) \in DOMAIN files
    /\ Len(files[index_file_path(w, 0)]) + Len(files[index_file_path(w, 1)]) >= 3

\* The heap entries that come from file fp.
EntriesOf(fp) == {i \in 1..Len(heap) : heap[i].fp = fp}

\* The records of the opened files that have token t, as <<file, line>>.
RecordsOf(t) ==
  UNION {{<<fp, j>> : j \in {k \in 1..Len(files[fp]) : files[fp][k].token = t}} :
           fp \in Range(file_pointers)}

\* The record is read, and popped from the heap.
Popped(x) == x[2] < fpos[x[1]] \/ (x[2] = fpos[x[1]] /\ EntriesOf(x[1]) = {})

\* C22: while merge() runs, the heap holds at most one entry per partial
\* file; the entry of a file is the record the file was last read to, and a
\* step moves a file on by at most one record and never back; and every
\* record of the output was written when the records of its token were
\* popped from every file that has one, and holds the postings of them all.
C22_HeapOneEntryPerFile ==
  /\ [](mpc \in {"loop", "raised"} =>
         /\ Len(heap) <= Len(file_pointers)
         /\ \A fp \in Range(file_pointers) : Cardinality(EntriesOf(fp)) <= 1
         /\ \A i \in 1..Len(heap) :
              /\ fpos[heap[i].fp] >= 1
              /\ heap[i] = Entry(files[heap[i].fp][fpos[heap[i].fp]], heap[i].fp)
         /\ \A i \in 1..Len(final_index) :
              /\ \A x \in RecordsOf(final_index[i].token) : Popped(x)
              /\ Len(final_index[i].postings)
                   = SumSeq([k \in 1..Len(file_pointers) |->
                              SumSeq([j \in 1..Len(files[file_pointers[k]]) |->
                                       IF files[file_pointers[k]][j].token = final_index[i].token
                                       THEN Len(files[file_pointers[k]][j].postings) ELSE 0])]))
  /\ [][mpc = "loop" =>
          \A fp \in Range(file_pointers) :
            fpos'[fp] = fpos[fp] \/ fpos'[fp] = fpos[fp] + 1]_vars

\* C22, its case: merge() is in its loop over two files of two records each;
\* it has written the record of the first token from both files' records
\* and the heap holds the next record of each file.
C22_Witness ==
  /\ mpc = "loop"
  /\ Len(file_pointers) = 2
  /\ Len(heap) = 2
  /\ Len(final_index) = 1
  /\ Len(final_index[1].postings) = 2
  /\ \A fp \in Range(file_pointers) : fpos[fp] = 2

\* The denominator of the ranker's formula is zero for document d: the
\* average document length for bm25, d's token count for tfidf.
ZeroDenominator(d) ==
  IF ranker = "bm25" THEN avg_tokens_per_doc = 0
  ELSE scorer_document_index[d].token_count = 0

\* C23: for every query processed, every candidate d and every posting of d
\* under a token of the query, when the ranker's formula has a zero
\* denominator for d the contribution of the posting is computed without an
\* error and is 0.
C23_ZeroDenominatorScoresZero ==
  \A q \in 1..Len(docids) :
    \A d \in docids[q] :
      \A k \in 1..Len(query_tokens_list[q]) :
        \A j \in 1..Len(index_get(inverted_index, query_tokens_list[q][k])) :
          (/\ index_get(inverted_index, query_tokens_list[q][k])[j][1] = d
           /\ ZeroDenominator(d))
            => compute_score(index_lexicon, ranker, query_tokens_list[q][k],
                             index_get(inverted_index, query_tokens_list[q][k])[j][2], d)
                 = Value(0)

\* The BM25 contribution of the claim, in thousandths: idf(t) * tf * (k1 + 1)
\* / (tf + k1 * (1 - b + b * token_count / avg)) with idf(t) =
\* ln(1 + (N - df + 0.5) / (df + 0.5)), k1 = 1.5, b = 0.75.
BM25(N, df, tf, token_count, avg) ==
  (ln_milli(2 * N + 2, 2 * df + 1) * 20 * tf * avg)
    \div (8 * tf * avg + 3 * avg + 9 * token_count)

\* The sum of the contributions to document d of the postings of d under
\* token t, whose document frequency is the length of t's posting list.
TokenBM25(t, d) ==
  SumSeq([j \in 1..Len(index_get(inverted_index, t)) |->
            IF index_get(inverted_index, t)[j][1] = d
            THEN BM25(total_docs, Len(index_get(inverted_index, t)),
                      index_get(inverted_index, t)[j][2],
                      scorer_document_index[d].token_count, avg_tokens_per_doc)
            ELSE 0])

\* C24: for every bm25 query processed that has candidates, over statistics
\* whose average document length is not 0, a result list was displayed in
\* which every candidate d has the sum over the query tokens of their BM25
\* contributions to d as its score.
C24_BM25ScoreIsSumOfContributions ==
  \A q \in 1..Len(docids) :
    (ranker = "bm25" /\ avg_tokens_per_doc # 0 /\ docids[q] # {}) =>
      /\ q <= Len(results)
      /\ \A d \in docids[q] :
           \E i \in 1..Len(results[q]) :
             results[q][i] = <<SumSeq([k \in 1..Len(query_tokens_list[q]) |->
                                        TokenBM25(query_tokens_list[q][k], d)]), d>>

\* The number of postings of the records of a partial file.
FilePostings(F) == SumSeq([i \in 1..Len(F) |-> Len(F[i].postings)])

\* C25: a worker in its loop, before its next document, has an entry_count
\* equal to the number of postings its in-memory index holds and below
\* max_entries; and the in-memory index never holds more than max_entries
\* postings, neither between documents nor when it is flushed (a partial
\* file is the index as it was at its fullest).
C25_EntryCountBelowMaxEntries ==
  /\ \A w \in Workers :
       /\ wpc[w] \in {"loop", "batch"} =>
            /\ entry_count[w] = Entries(windex[w])
            /\ entry_count[w] < max_entries
       /\ Entries(windex[w]) <= max_entries
  /\ \A n \in DOMAIN files : FilePostings(files[n]) <= max_entries

\* C25, its case: a worker that has flushed once is about to take its next
\* document with postings in its index again.
C25_Witness ==
  \E w \in Workers :
    /\ wpc[w] = "loop"
    /\ counter[w] >= 1
    /\ entry_count[w] >= 1
    /\ Len(handled[w]) >= 2

\* C26: when the streamer has raised on a malformed line, every worker
\* that was started eventually ends and the indexer process exits with the
\* failure.
C26_StreamerErrorEndsRun ==
  (opc = "raised") ~> (opc = "failed" /\ \A w \in Workers : wpc[w] \in {"done", "dead"})

\* C27: merge() never raises on token-sorted partial files, also when two
\* files' current records have the same token and equal postings lists.
C27_MergeNeverRaises == mpc # "raised"

====
